---- MODULE Spec2Model ----
\* A model of salt/client/mixins.py: SyncClientMixin (the function registry
\* and its invoker) and AsyncClientMixin (the job runner that executes the
\* same invocation in a worker process and reports it on the event bus).
EXTENDS Integers, Sequences, FiniteSets, TLC

VARIABLES
    functions,  \* SyncClientMixin.functions: name -> callable
    sync,       \* the last synchronous call and what its caller observed
    now,        \* the wall clock datetime.datetime.now() reads
    disp,       \* the dispatching process: its position inside async()
    calls,      \* one record per call of async(): its arguments and locals
    proc,       \* one worker process per call of async(): _proc_function
    bus         \* the event bus: the events published, in order

vars == <<functions, sync, now, disp, calls, proc, bus>>

----------------------------------------------------------------------------
\* Python values. A string is the sequence of its characters; None is a
\* value of its own.

Str(s) == [t |-> "str", s |-> s]
NoneVal == [t |-> "None", s |-> <<>>]

\* Python truth value of a str-or-None.
Truthy(v) == v.t = "str" /\ v.s # <<>>

\* str.format rendering of a str-or-None ('{0}'.format(None) = 'None').
Render(v) == IF v.t = "None" THEN <<"N", "o", "n", "e">> ELSE v.s

\* '{0!r}' rendering of a str-or-None: a string is quoted.
Repr(v) == IF v.t = "None" THEN Render(v) ELSE <<"'">> \o v.s \o <<"'">>

\* The outcome of running Python code: a returned value, a raised exception
\* deriving from Exception, or a raised BaseException that does not derive
\* from Exception (SystemExit, KeyboardInterrupt, GeneratorExit). Returned
\* values and messages are sequences of strings.
Returned(v) == [kind |-> "return", val |-> v, cls |-> "", msg |-> <<>>]
Raised(cls, msg) == [kind |-> "raise", val |-> <<>>, cls |-> cls, msg |-> msg]
BaseClasses == {"SystemExit", "KeyboardInterrupt", "GeneratorExit"}
IsException(o) == o.kind = "raise" /\ o.cls \notin BaseClasses

\* The elements of a sequence.
Range(s) == {s[i] : i \in 1..Len(s)}

\* str.endswith and str.startswith.
EndsWith(s, suffix) ==
    /\ Len(s) >= Len(suffix)
    /\ SubSeq(s, Len(s) - Len(suffix) + 1, Len(s)) = suffix

StartsWith(s, prefix) ==
    /\ Len(s) >= Len(prefix)
    /\ SubSeq(s, 1, Len(prefix)) = prefix

\* The decimal digits.
DigitChars == <<"0", "1", "2", "3", "4", "5", "6", "7", "8", "9">>

\* Python's order of str values: character by character, by code point; a
\* proper prefix is smaller. Ascii lists the characters in use, in order.
Ascii ==
    <<"'", ".", "/">> \o DigitChars
        \o <<"a", "b", "d", "e", "j", "l", "n", "o", "p", "q", "r", "s", "t",
             "u", "w", "x", "z">>

Ord(c) == CHOOSE i \in 1..Len(Ascii) : Ascii[i] = c

RECURSIVE StrLeq(_, _)
StrLeq(a, b) ==
    IF a = <<>> THEN TRUE
    ELSE IF b = <<>> THEN FALSE
    ELSE IF Head(a) = Head(b) THEN StrLeq(Tail(a), Tail(b))
    ELSE Ord(Head(a)) < Ord(Head(b))

----------------------------------------------------------------------------
\* The registered callables. A callable is described by its signature
\* (ordered required parameters, ordered optional parameters with their
\* defaults, *args and **kwargs acceptance) and by its body.

Callable(req, opt, dflt, va, kw, body) ==
    [required |-> req, optional |-> opt, defaults |-> dflt,
     varargs |-> va, keywords |-> kw, body |-> body]

f_ping == Callable(<<>>, <<>>, <<>>, FALSE, FALSE, "ping")
f_echo == Callable(<<"x">>, <<"y">>, <<"d">>, FALSE, FALSE, "echo")
f_boom == Callable(<<>>, <<>>, <<>>, FALSE, FALSE, "boom")
f_exit == Callable(<<>>, <<>>, <<>>, FALSE, FALSE, "exit")
f_any  == Callable(<<>>, <<>>, <<>>, TRUE, TRUE, "any")

\* Function names, as character sequences.
n_ping == <<"t", ".", "p">>
n_echo == <<"t", ".", "e">>
n_boom == <<"b">>
n_exit == <<"q">>
n_any  == <<"b", ".", "a">>
n_bx   == <<"b", "x">>
n_none == <<"z">>

\* The body of a callable, run on its bound parameters: env gives every
\* declared parameter its value.
RunBody(body, env) ==
    CASE body = "ping" -> Returned(<<"pong">>)
      [] body = "echo" -> Returned(<<env["x"], env["y"]>>)
      [] body = "boom" -> Raised("ValueError", <<"bad">>)
      [] body = "exit" -> Raised("SystemExit", <<"1">>)
      [] OTHER         -> Returned(<<"None">>)

----------------------------------------------------------------------------
\* Call specifications ("low" data): named entries, a set of key/value
\* pairs with distinct keys, and the reserved ordered-arguments entry.

LowData(kw, arg) == [kw |-> kw, arg |-> arg]
KV(k, v) == [k |-> k, v |-> v]
Keys(kw) == {e.k : e \in kw}
Get(kw, k) == (CHOOSE e \in kw : e.k = k).v

\* salt.utils.format_call(fun, data): reconcile the call specification with
\* the declared parameters of the callable. Entries naming a declared
\* parameter are bound as keyword arguments, the ordered-arguments entry
\* is the positional list, and any other entry is passed through when the
\* callable accepts **kwargs and rejected otherwise. It works on a copy: the
\* field data is the caller's call specification as format_call leaves it.
format_call(l_fun, data) ==
    LET declared == Range(l_fun.required) \cup Range(l_fun.optional)
        named    == {e \in data.kw : e.k \in declared}
        others   == data.kw \ named
    IN  IF others # {} /\ ~l_fun.keywords
        THEN [out |-> Raised("SaltInvocationError", <<"unexpected argument">>),
              args |-> <<>>, kwargs |-> {}, data |-> data]
        ELSE [out |-> Returned(<<>>), args |-> data.arg, kwargs |-> data.kw,
              data |-> data]

\* Python's binding of the arguments of l_fun(*args, **kwargs) to the
\* declared parameters: a TypeError, or the environment of the body.
Bind(l_fun, args, kwargs) ==
    LET params   == l_fun.required \o l_fun.optional
        npos     == IF Len(args) < Len(params) THEN Len(args) ELSE Len(params)
        posnames == {params[i] : i \in 1..npos}
        env      == [p \in Range(params) |->
                        IF p \in posnames
                        THEN args[CHOOSE i \in 1..npos : params[i] = p]
                        ELSE IF p \in Keys(kwargs) THEN Get(kwargs, p)
                        ELSE IF p \in Range(l_fun.optional)
                        THEN l_fun.defaults[CHOOSE i \in 1..Len(l_fun.optional) :
                                                l_fun.optional[i] = p]
                        ELSE "unbound"]
        err      == IF Len(args) > Len(params) /\ ~l_fun.varargs
                    THEN <<"too many positional arguments">>
                    ELSE IF Keys(kwargs) \cap posnames # {}
                    THEN <<"multiple values for argument">>
                    ELSE IF (Keys(kwargs) \ Range(params)) # {} /\ ~l_fun.keywords
                    THEN <<"unexpected keyword argument">>
                    ELSE IF Range(l_fun.required) \ (posnames \cup Keys(kwargs)) # {}
                    THEN <<"missing required argument">>
                    ELSE <<>>
    IN  [err |-> err, env |-> env]

\* l_fun(*args, **kwargs): bind the arguments, then run the body.
PyCall(l_fun, args, kwargs) ==
    LET b == Bind(l_fun, args, kwargs)
    IN  IF b.err # <<>> THEN Raised("TypeError", b.err)
        ELSE RunBody(l_fun.body, b.env)

----------------------------------------------------------------------------
\* SyncClientMixin

\* _verify_fun(fun): returns None, or raises CommandExecutionError.
m_verify_fun_no_empty_check(reg, fun) ==
    IF ~(fun.t = "str" /\ fun.s \in DOMAIN reg)
    THEN Raised("CommandExecutionError",
                <<"Function ">> \o Repr(fun) \o <<" is unavailable">>)
    ELSE Returned(<<"None">>)

_verify_fun(reg, fun) ==
    IF ~Truthy(fun)
    THEN Raised("CommandExecutionError", <<"Must specify a function to run">>)
    ELSE IF ~(fun.t = "str" /\ fun.s \in DOMAIN reg)
    THEN Raised("CommandExecutionError",
                <<"Function ">> \o Repr(fun) \o <<" is unavailable">>)
    ELSE Returned(<<"None">>)

\* low(fun, low): the outcome its caller observes, the steps it ran, and the
\* caller's call specification as low leaves it.
m_low_verify_last(reg, fun, data) ==
    LET known == fun.t = "str" /\ fun.s \in DOMAIN reg
        v     == _verify_fun(reg, fun)
        l_fun == IF known THEN reg[fun.s] ELSE f_ping
        fc    == format_call(l_fun, data)
        ret   == PyCall(l_fun, fc.args, fc.kwargs)
    IN  IF fc.out.kind = "raise"
        THEN [out |-> fc.out, ran |-> <<"format_call">>, after |-> fc.data]
        ELSE IF ret.kind = "raise"
        THEN [out |-> ret, ran |-> <<"format_call", "l_fun">>,
              after |-> fc.data]
        ELSE IF v.kind = "raise"
        THEN [out |-> v, ran |-> <<"format_call", "l_fun", "_verify_fun">>,
              after |-> fc.data]
        ELSE [out |-> ret, ran |-> <<"format_call", "l_fun", "_verify_fun">>,
              after |-> fc.data]

m_low_swallow(reg, fun, data) ==
    LET v == _verify_fun(reg, fun)
    IN  IF v.kind = "raise"
        THEN [out |-> v, ran |-> <<"_verify_fun">>, after |-> data]
        ELSE LET l_fun == reg[fun.s]
                 fc    == format_call(l_fun, data)
                 ret   == PyCall(l_fun, fc.args, fc.kwargs)
             IN  IF fc.out.kind = "raise"
                 THEN [out |-> fc.out, ran |-> <<"_verify_fun", "format_call">>,
                       after |-> fc.data]
                 ELSE [out |-> IF ret.kind = "raise" THEN Returned(<<"None">>) ELSE ret,
                       ran |-> <<"_verify_fun", "format_call", "l_fun">>,
                       after |-> fc.data]

low(reg, fun, data) ==
    LET v == _verify_fun(reg, fun)
    IN  IF v.kind = "raise"
        THEN [out |-> v, ran |-> <<"_verify_fun">>, after |-> data]
        ELSE LET l_fun == reg[fun.s]
                 fc    == format_call(l_fun, data)
                 ret   == PyCall(l_fun, fc.args, fc.kwargs)
             IN  IF fc.out.kind = "raise"
                 THEN [out |-> fc.out, ran |-> <<"_verify_fun", "format_call">>,
                       after |-> fc.data]
                 ELSE [out |-> ret, ran |-> <<"_verify_fun", "format_call", "l_fun">>,
                       after |-> fc.data]

\* The __doc__ of a registered callable, as a sequence of words; some of
\* them are reStructuredText markup.
Markup == {"::", "**", ".. code-block::"}

DocOf(l_fun) ==
    CASE l_fun.body = "ping" -> <<"Ping", "::", "ping">>
      [] l_fun.body = "echo" -> <<"Echo", "**", "x", "**">>
      [] l_fun.body = "boom" -> <<"Boom">>
      [] l_fun.body = "exit" -> <<".. code-block::", "Exit">>
      [] OTHER               -> <<"Any">>

\* salt.utils.doc.strip_rst, on one documentation text.
strip_rst(doc) == SelectSeq(doc, LAMBDA word : word \notin Markup)

\* sorted(names): the names in the order of Python's str comparison.
RECURSIVE sorted(_)
sorted(names) ==
    IF names = {} THEN <<>>
    ELSE LET first == CHOOSE n \in names : \A m \in names : StrLeq(n, m)
         IN  <<first>> \o sorted(names \ {first})

\* get_docs(arg), up to the list comprehension: the (name, __doc__) pairs
\* selected, in sorted order of the names.
m_get_docs_no_dot(reg, arg) ==
    LET names == sorted(DOMAIN reg)
        pair(fun) == [name |-> fun, doc |-> DocOf(reg[fun])]
        all == [i \in 1..Len(names) |-> pair(names[i])]
    IN  IF Truthy(arg)
        THEN SelectSeq(all, LAMBDA d : d.name = arg.s \/ StartsWith(d.name, arg.s))
        ELSE all

get_docs(reg, arg) ==
    LET names == sorted(DOMAIN reg)
        pair(fun) == [name |-> fun, doc |-> DocOf(reg[fun])]
        all == [i \in 1..Len(names) |-> pair(names[i])]
    IN  IF Truthy(arg)
        THEN LET target_mod == IF ~EndsWith(arg.s, <<".">>)
                               THEN arg.s \o <<".">> ELSE arg.s
             IN  SelectSeq(all, LAMBDA d : d.name = arg.s
                                           \/ StartsWith(d.name, target_mod))
        ELSE all

\* dict(docs): the pairs become a dict, whose iteration order is the order
\* of its hash table and not the order of insertion: any order can come out.
dict(docs) ==
    LET n == Len(docs)
        orders == {o \in [1..n -> 1..n] : \A i, j \in 1..n : o[i] = o[j] => i = j}
    IN  {[i \in 1..n |-> docs[o[i]]] : o \in orders}

----------------------------------------------------------------------------
\* salt.utils.event.tagify and the job identifier

SALT == <<"s", "a", "l", "t">>
TAGPARTER == <<"/">>
s_new == <<"n", "e", "w">>
s_ret == <<"r", "e", "t">>

RECURSIVE Join(_)
Join(parts) ==
    IF Len(parts) = 0 THEN <<>>
    ELSE IF Len(parts) = 1 THEN parts[1]
    ELSE parts[1] \o TAGPARTER \o Join(Tail(parts))

\* tagify(suffix, prefix, base): the non-empty parts, joined.
tagify(suffix, prefix, base) ==
    Join(SelectSeq(<<base, prefix, suffix>>, LAMBDA part : part # <<>>))

\* n written in decimal, zero-padded to w digits (the low w digits of n).
RECURSIVE Digits(_, _)
Digits(n, w) ==
    IF w = 0 THEN <<>> ELSE Digits(n \div 10, w - 1) \o <<DigitChars[(n % 10) + 1]>>

\* The wall clock counts ticks of TickUs microseconds from the start of a day.
TickUs == 499999
UsecPerSec == 1000000
SecPerMin == 60
MaxClock == 1

\* '{0:%Y%m%d%H%M%S%f}'.format(datetime.datetime.now())
m_FormatJid_seconds(t) ==
    LET us == t * TickUs
    IN  Digits(2014, 4) \o Digits(1, 2) \o Digits(1, 2) \o Digits(0, 2)
        \o Digits(((us \div UsecPerSec) \div SecPerMin) % SecPerMin, 2)
        \o Digits((us \div UsecPerSec) % SecPerMin, 2)

FormatJid(t) ==
    LET us == t * TickUs
    IN  Digits(2014, 4) \o Digits(1, 2) \o Digits(1, 2) \o Digits(0, 2)
        \o Digits(((us \div UsecPerSec) \div SecPerMin) % SecPerMin, 2)
        \o Digits((us \div UsecPerSec) % SecPerMin, 2)
        \o Digits(us % UsecPerSec, 6)

----------------------------------------------------------------------------
\* AsyncClientMixin

\* The attributes a client class gives the mixin.
client == <<"r", "u", "n">>
tag_prefix == <<"j", "o", "b">>

MaxDispatch == 2

\* The registry of the job runner.
Registry ==
    (n_ping :> f_ping) @@ (n_echo :> f_echo) @@ (n_boom :> f_boom)
    @@ (n_exit :> f_exit) @@ (n_any :> f_any)

NoLow == LowData({}, <<>>)

\* The calls made of async(): function name, call specification, user,
\* fire_event.
Jobs ==
    { <<Str(n_echo), LowData({KV("x", "v1")}, <<>>), "root", TRUE>>,
      <<Str(n_boom), NoLow, "UNKNOWN", TRUE>>,
      <<Str(n_exit), NoLow, "root", TRUE>>,
      <<Str(n_none), NoLow, "UNKNOWN", TRUE>>,
      <<Str(<<>>), NoLow, "UNKNOWN", TRUE>>,
      <<Str(n_ping), NoLow, "UNKNOWN", FALSE>>,
      <<Str(n_boom), NoLow, "root", FALSE>>,
      <<Str(n_exit), NoLow, "UNKNOWN", FALSE>> }

NoHandle == [tag |-> <<>>, jid |-> <<>>]
NoSync == [op |-> "", fun |-> NoneVal, data |-> NoLow, after |-> NoLow,
           out |-> Returned(<<>>), ran |-> <<>>, docs |-> <<>>]

Init ==
    /\ functions = Registry
    /\ sync = NoSync
    /\ now = 0
    /\ disp = "idle"
    /\ calls = <<>>
    /\ proc = <<>>
    /\ bus = <<>>

\* The wall clock moves on. (It is read only by async(), so it moves only
\* while a call of async() is still to come.)
Tick ==
    /\ disp = "idle" /\ Len(calls) < MaxDispatch
    /\ now < MaxClock
    /\ now' = now + 1
    /\ UNCHANGED <<functions, sync, disp, calls, proc, bus>>

\* The wall clock is set back (datetime.now() is local wall-clock time).
ClockSetBack ==
    /\ disp = "idle" /\ Len(calls) < MaxDispatch
    /\ now > 0
    /\ now' = now - 1
    /\ UNCHANGED <<functions, sync, disp, calls, proc, bus>>

\* async(fun, low, user, fire_event), up to proc.start(): jid and tag.
m_AsyncCall_validates(fun, data, user, fire_event) ==
    /\ disp = "idle" /\ Len(calls) < MaxDispatch
    /\ _verify_fun(functions, fun).kind = "return"
    /\ LET jid == FormatJid(now)
           tag == tagify(jid, tag_prefix, SALT)
       IN  calls' = Append(calls,
                [fun |-> fun, low |-> data, user |-> user,
                 fire_event |-> fire_event, jid |-> jid, tag |-> tag,
                 at |-> now, returned |-> FALSE, handle |-> NoHandle])
    /\ disp' = "start"
    /\ UNCHANGED <<functions, sync, now, proc, bus>>

AsyncCall(fun, data, user, fire_event) ==
    /\ disp = "idle" /\ Len(calls) < MaxDispatch
    /\ LET jid == FormatJid(now)
           tag == tagify(jid, tag_prefix, SALT)
       IN  calls' = Append(calls,
                [fun |-> fun, low |-> data, user |-> user,
                 fire_event |-> fire_event, jid |-> jid, tag |-> tag,
                 at |-> now, returned |-> FALSE, handle |-> NoHandle])
    /\ disp' = "start"
    /\ UNCHANGED <<functions, sync, now, proc, bus>>

\* multiprocessing.Process(target=self._proc_function,
\*     args=(fun, low, user, tag, jid), kwargs={'fire_event': fire_event})
\* and proc.start(): the worker exists, with its own copy of the arguments.
m_Worker_swapped(c) ==
    [pc |-> "spawned", fun |-> c.fun, low |-> c.low, user |-> c.user,
     tag |-> c.jid, jid |-> c.tag, fire_event |-> c.fire_event,
     data |-> <<>>, event |-> "unset", invoked |-> 0, ran |-> <<>>,
     exc |-> ""]

Worker(c) ==
    [pc |-> "spawned", fun |-> c.fun, low |-> c.low, user |-> c.user,
     tag |-> c.tag, jid |-> c.jid, fire_event |-> c.fire_event,
     data |-> <<>>, event |-> "unset", invoked |-> 0, ran |-> <<>>,
     exc |-> ""]

ProcStart ==
    /\ disp = "start"
    /\ proc' = Append(proc, Worker(calls[Len(calls)]))
    /\ disp' = "return"
    /\ UNCHANGED <<functions, sync, now, calls, bus>>

\* return {'tag': tag, 'jid': jid}
m_AsyncReturn_join ==
    /\ disp = "return"
    /\ proc[Len(calls)].pc \in {"done", "died"}
    /\ calls' = [calls EXCEPT ![Len(calls)].returned = TRUE,
                              ![Len(calls)].handle =
                                  [tag |-> calls[Len(calls)].tag,
                                   jid |-> calls[Len(calls)].jid]]
    /\ disp' = "idle"
    /\ UNCHANGED <<functions, sync, now, proc, bus>>

AsyncReturn ==
    /\ disp = "return"
    /\ calls' = [calls EXCEPT ![Len(calls)].returned = TRUE,
                              ![Len(calls)].handle =
                                  [tag |-> calls[Len(calls)].tag,
                                   jid |-> calls[Len(calls)].jid]]
    /\ disp' = "idle"
    /\ UNCHANGED <<functions, sync, now, proc, bus>>

\* A dict with d[k] = v.
DictSet(d, k, v) == [x \in DOMAIN d \cup {k} |-> IF x = k THEN v ELSE d[x]]

\* data = {'fun': '{0}.{1}'.format(self.client, fun), 'jid': jid, 'user': user}
m_StartData_no_user(w) ==
    DictSet(DictSet(<<>>, "fun", client \o <<".">> \o Render(w.fun)), "jid", w.jid)

StartData(w) ==
    DictSet(DictSet(DictSet(<<>>, "fun", client \o <<".">> \o Render(w.fun)),
                    "jid", w.jid), "user", w.user)

\* The worker begins _proc_function: salt.utils.daemonize(), then data.
m_AfterStart_no_new(w) == "call_low"

m_AfterStart_always_event(w) == "get_event"

AfterStart(w) == IF w.fire_event THEN "get_event" ELSE "call_low"

WorkerStart(k) ==
    /\ k \in 1..Len(proc) /\ proc[k].pc = "spawned"
    /\ proc' = [proc EXCEPT ![k].data = StartData(proc[k]),
                            ![k].pc = AfterStart(proc[k])]
    /\ UNCHANGED <<functions, sync, now, disp, calls, bus>>

\* event = salt.utils.event.get_event(...): the bus connection opens,
GetEvent(k) ==
    /\ k \in 1..Len(proc) /\ proc[k].pc = "get_event"
    /\ proc' = [proc EXCEPT ![k].event = "open", ![k].pc = "fire_new"]
    /\ UNCHANGED <<functions, sync, now, disp, calls, bus>>

\* or get_event raises, and the exception leaves _proc_function.
m_GetEventFails_continue(k) ==
    /\ k \in 1..Len(proc) /\ proc[k].pc = "get_event"
    /\ proc' = [proc EXCEPT ![k].exc = "get_event", ![k].pc = "call_low"]
    /\ UNCHANGED <<functions, sync, now, disp, calls, bus>>

GetEventFails(k) ==
    /\ k \in 1..Len(proc) /\ proc[k].pc = "get_event"
    /\ proc' = [proc EXCEPT ![k].exc = "get_event", ![k].pc = "died"]
    /\ UNCHANGED <<functions, sync, now, disp, calls, bus>>

\* The event published by event.fire_event(data, tagify(suffix, base=tag)).
m_Event_swapped(k, w, suffix) ==
    [topic |-> tagify(IF suffix = s_new THEN s_ret ELSE s_new, <<>>, w.tag),
     data |-> w.data, by |-> k]

m_Event_new_only(k, w, suffix) ==
    [topic |-> tagify(s_new, <<>>, w.tag), data |-> w.data, by |-> k]

Event(k, w, suffix) ==
    [topic |-> tagify(suffix, <<>>, w.tag), data |-> w.data, by |-> k]

\* event.fire_event(data, tagify('new', base=tag))
FireNew(k) ==
    /\ k \in 1..Len(proc) /\ proc[k].pc = "fire_new"
    /\ bus' = Append(bus, Event(k, proc[k], s_new))
    /\ proc' = [proc EXCEPT ![k].pc = "call_low"]
    /\ UNCHANGED <<functions, sync, now, disp, calls>>

FireNewFails(k) ==
    /\ k \in 1..Len(proc) /\ proc[k].pc = "fire_new"
    /\ proc' = [proc EXCEPT ![k].exc = "fire_event", ![k].pc = "died"]
    /\ UNCHANGED <<functions, sync, now, disp, calls, bus>>

\* try: self.low(fun, low) is entered.
LowBegin(k) ==
    /\ k \in 1..Len(proc) /\ proc[k].pc = "call_low"
    /\ proc' = [proc EXCEPT ![k].invoked = @ + 1, ![k].pc = "in_low"]
    /\ UNCHANGED <<functions, sync, now, disp, calls, bus>>

\* The text 'Exception occurred in {0} {1}: {2}: {3}'.
Summary(w, o) ==
    <<"Exception occurred in ">> \o client \o <<" ">> \o Render(w.fun)
        \o <<": ", o.cls, ": ">> \o o.msg

\* The worker after the try statement and data['user'] = user, self.low
\* having ended with outcome o: an Exception is caught and recorded, any
\* other BaseException leaves _proc_function.
m_AfterLow_success_always(w, o) ==
    IF o.kind = "return"
    THEN [w EXCEPT !.data = DictSet(DictSet(DictSet(w.data, "return", o.val),
                                            "success", TRUE), "user", w.user),
                   !.pc = IF w.fire_event THEN "fire_ret" ELSE "done"]
    ELSE IF IsException(o)
    THEN [w EXCEPT !.data = DictSet(DictSet(DictSet(w.data, "return", Summary(w, o)),
                                            "success", TRUE), "user", w.user),
                   !.pc = IF w.fire_event THEN "fire_ret" ELSE "done"]
    ELSE [w EXCEPT !.exc = o.cls, !.pc = "died"]

AfterLow(w, o) ==
    IF o.kind = "return"
    THEN [w EXCEPT !.data = DictSet(DictSet(DictSet(w.data, "return", o.val),
                                            "success", TRUE), "user", w.user),
                   !.pc = IF w.fire_event THEN "fire_ret" ELSE "done"]
    ELSE IF IsException(o)
    THEN [w EXCEPT !.data = DictSet(DictSet(DictSet(w.data, "return", Summary(w, o)),
                                            "success", FALSE), "user", w.user),
                   !.pc = IF w.fire_event THEN "fire_ret" ELSE "done"]
    ELSE [w EXCEPT !.exc = o.cls, !.pc = "died"]

\* self.low(fun, low) ends, by returning or by raising.
LowEnd(k) ==
    /\ k \in 1..Len(proc) /\ proc[k].pc = "in_low"
    /\ LET r == low(functions, proc[k].fun, proc[k].low)
       IN  proc' = [proc EXCEPT ![k] = AfterLow([proc[k] EXCEPT !.ran = r.ran], r.out)]
    /\ UNCHANGED <<functions, sync, now, disp, calls, bus>>

\* event.fire_event(data, tagify('ret', base=tag)); del event
FireRet(k) ==
    /\ k \in 1..Len(proc) /\ proc[k].pc = "fire_ret"
    /\ bus' = Append(bus, Event(k, proc[k], s_ret))
    /\ proc' = [proc EXCEPT ![k].event = "deleted", ![k].pc = "done"]
    /\ UNCHANGED <<functions, sync, now, disp, calls>>

FireRetFails(k) ==
    /\ k \in 1..Len(proc) /\ proc[k].pc = "fire_ret"
    /\ proc' = [proc EXCEPT ![k].exc = "fire_event", ![k].pc = "died"]
    /\ UNCHANGED <<functions, sync, now, disp, calls, bus>>

\* A worker that an exception ended never reaches `del event`. Whether the
\* interpreter still finalises the event object while the process goes down
\* is up to the interpreter: it may, or the process may end first.
ExitReleases(k) ==
    /\ k \in 1..Len(proc) /\ proc[k].pc = "died" /\ proc[k].event = "open"
    /\ proc' = [proc EXCEPT ![k].event = "deleted"]
    /\ UNCHANGED <<functions, sync, now, disp, calls, bus>>

Next ==
    \/ Tick
    \/ ClockSetBack
    \/ \E j \in Jobs : AsyncCall(j[1], j[2], j[3], j[4])
    \/ ProcStart
    \/ AsyncReturn
    \/ \E k \in 1..MaxDispatch :
          \/ WorkerStart(k)
          \/ GetEvent(k)
          \/ GetEventFails(k)
          \/ FireNew(k)
          \/ FireNewFails(k)
          \/ LowBegin(k)
          \/ LowEnd(k)
          \/ FireRet(k)
          \/ FireRetFails(k)
          \/ ExitReleases(k)

Spec == Init /\ [][Next]_vars

----------------------------------------------------------------------------
\* The synchronous interface, called directly.

FunInputs ==
    {Str(n) : n \in {n_ping, n_echo, n_boom, n_exit, n_any, n_bx, n_none, <<>>}}
        \cup {NoneVal}

LowInputs ==
    { NoLow,
      LowData({KV("x", "v1")}, <<>>),
      LowData({KV("x", "v1"), KV("y", "v2")}, <<>>),
      LowData({KV("w", "v1")}, <<>>),
      LowData({}, <<"v1">>),
      LowData({KV("x", "v1")}, <<"v2">>) }

Registries ==
    { Registry, (n_ping :> f_ping) @@ (n_echo :> f_echo), <<>>,
      (n_boom :> f_boom) @@ (n_any :> f_any) @@ (n_bx :> f_ping) }

\* The arguments of get_docs: None, the empty string, names and prefixes.
DocInputs ==
    {NoneVal} \cup {Str(n) : n \in {<<>>, <<"b">>, <<"b", ".">>, <<"t">>,
                                     n_ping, n_bx, n_none}}

InitSync ==
    /\ functions \in Registries
    /\ sync = NoSync
    /\ now = 0
    /\ disp = "idle"
    /\ calls = <<>>
    /\ proc = <<>>
    /\ bus = <<>>

VerifyFun(fun) ==
    /\ sync' = [NoSync EXCEPT !.op = "_verify_fun", !.fun = fun,
                              !.out = _verify_fun(functions, fun),
                              !.ran = <<"_verify_fun">>]
    /\ UNCHANGED <<functions, now, disp, calls, proc, bus>>

m_LowCall_pops(fun, data) ==
    /\ LET r == low(functions, fun, data)
       IN  sync' = [NoSync EXCEPT !.op = "low", !.fun = fun, !.data = data,
                                  !.after = r.after, !.out = r.out, !.ran = r.ran]
    /\ functions' = [n \in DOMAIN functions \ {fun.s} |-> functions[n]]
    /\ UNCHANGED <<now, disp, calls, proc, bus>>

LowCall(fun, data) ==
    /\ LET r == low(functions, fun, data)
       IN  sync' = [NoSync EXCEPT !.op = "low", !.fun = fun, !.data = data,
                                  !.after = r.after, !.out = r.out, !.ran = r.ran]
    /\ UNCHANGED <<functions, now, disp, calls, proc, bus>>

\* get_docs(arg): the dict returned, as the sequence of its items in
\* iteration order, each documentation text stripped of markup. The call
\* specification field holds the argument.
GetDocs(arg) ==
    /\ \E d \in dict(get_docs(functions, arg)) :
          sync' = [NoSync EXCEPT
                      !.op = "get_docs", !.fun = arg,
                      !.out = Returned(<<"dict">>), !.ran = <<"get_docs">>,
                      !.docs = [i \in 1..Len(d) |->
                                   [name |-> d[i].name, doc |-> strip_rst(d[i].doc)]]]
    /\ UNCHANGED <<functions, now, disp, calls, proc, bus>>

NextSync ==
    \/ \E fun \in FunInputs : VerifyFun(fun)
    \/ \E fun \in FunInputs, data \in LowInputs : LowCall(fun, data)
    \/ \E arg \in DocInputs : GetDocs(arg)

SpecSync == InitSync /\ [][NextSync]_vars

----------------------------------------------------------------------------
\* Properties of the job runner (checked under Spec)

EventsBy(k) == SelectSeq(bus, LAMBDA e : e.by = k)

IsNew(e) == EndsWith(e.topic, s_new)
IsRet(e) == EndsWith(e.topic, s_ret)

Terminated(w) == w.pc \in {"done", "died"}

Registered(fun) == fun.t = "str" /\ fun.s # <<>> /\ fun.s \in DOMAIN functions

\* What the synchronous low(fun, low) does for the arguments of call k.
SyncOutcome(k) == low(functions, calls[k].fun, calls[k].low).out

\* C1 as stated: every dispatch with fire_event=true whose worker has ended
\* has published exactly two events, 'new' then 'ret', with the same jid.
C1_ExactlyTwoEvents ==
    \A k \in 1..Len(proc) :
        (proc[k].fire_event /\ Terminated(proc[k])) =>
            LET ev == EventsBy(k)
            IN  /\ Len(ev) = 2
                /\ IsNew(ev[1]) /\ IsRet(ev[2])
                /\ ev[1].data.jid = ev[2].data.jid

\* C1, amended: a worker with fire_event=true publishes at most two events,
\* the first on the topic ending in 'new' and the second on the topic ending
\* in 'ret', both with the same jid; exactly these two once it has run
\* _proc_function to its end, and fewer (none, or 'new' alone) when an
\* exception leaving _proc_function ended it early.
C1_NewThenRet ==
    \A k \in 1..Len(proc) :
        proc[k].fire_event =>
            LET ev == EventsBy(k)
            IN  /\ Len(ev) <= 2
                /\ Len(ev) >= 1 => IsNew(ev[1]) /\ ~IsRet(ev[1])
                /\ Len(ev) = 2 => /\ IsRet(ev[2]) /\ ~IsNew(ev[2])
                                  /\ ev[1].data.jid = ev[2].data.jid
                /\ proc[k].pc = "done" => Len(ev) = 2
                /\ proc[k].pc = "died" => Len(ev) < 2

C1_Witness ==
    \E k \in 1..Len(proc) :
        /\ proc[k].fire_event /\ proc[k].pc = "done"
        /\ Len(EventsBy(k)) = 2

\* C2: in a worker the 'new' event is on the bus before self.low is entered,
\* and a 'ret' event is on the bus only after self.low has ended (by
\* returning or by raising), self.low having been entered once.
C2_NewBeforeLowBeforeRet ==
    \A k \in 1..Len(proc) :
        LET ev == EventsBy(k)
        IN  /\ (proc[k].fire_event /\ proc[k].pc \in {"call_low", "in_low"}) =>
                  (Len(ev) = 1 /\ IsNew(ev[1]))
            /\ (proc[k].fire_event /\ proc[k].invoked > 0) =>
                  (Len(ev) >= 1 /\ IsNew(ev[1]))
            /\ \A i \in 1..Len(ev) :
                  IsRet(ev[i]) => /\ i > 1
                                  /\ proc[k].invoked = 1
                                  /\ proc[k].ran # <<>>
                                  /\ proc[k].pc \notin {"call_low", "in_low"}

C2_Witness ==
    \E k1, k2 \in 1..Len(proc) :
        /\ \E i \in 1..Len(bus) :
              bus[i].by = k1 /\ IsRet(bus[i]) /\ SyncOutcome(k1).kind = "return"
        /\ \E i \in 1..Len(bus) :
              bus[i].by = k2 /\ IsRet(bus[i]) /\ SyncOutcome(k2).kind = "raise"

\* C3 as stated: whenever the invocation of a worker has ended with a
\* failure, of any kind, the failure has not left the worker, and the 'ret'
\* event is published with success=false and a non-empty description.
C3_AnyFailureContained ==
    \A k \in 1..Len(proc) :
        (proc[k].fire_event /\ proc[k].ran # <<>>
            /\ SyncOutcome(k).kind = "raise") =>
            /\ proc[k].exc \in {"", "fire_event"}
            /\ proc[k].pc = "done" =>
                  \E i \in 1..Len(bus) :
                      /\ bus[i].by = k /\ IsRet(bus[i])
                      /\ bus[i].data.success = FALSE
                      /\ bus[i].data["return"] # <<>>

\* C4 as stated: a worker that has begun running belongs to a call of
\* async() that has already returned.
C4_ReturnsBeforeWorkerRuns ==
    \A k \in 1..Len(proc) : proc[k].pc # "spawned" => calls[k].returned

\* C4, amended: async() returns {tag, jid} without waiting for the worker:
\* once the worker is launched the return is possible whatever the worker
\* has or has not done, and async() returns only after launching it.
C4_NonBlocking ==
    /\ disp = "return" => (Len(proc) = Len(calls) /\ ENABLED AsyncReturn)
    /\ \A k \in 1..Len(calls) :
          calls[k].returned =>
              /\ k <= Len(proc)
              /\ calls[k].handle = [tag |-> calls[k].tag, jid |-> calls[k].jid]

C4_Witness ==
    \E k \in 1..Len(proc) :
        /\ calls[k].returned /\ proc[k].pc = "in_low"
        /\ calls[k].handle.jid = proc[k].jid

C9_HandleCorrelates ==
    /\ \A k \in 1..Len(calls) :
          /\ calls[k].tag = tagify(calls[k].jid, tag_prefix, SALT)
          /\ calls[k].tag = SALT \o TAGPARTER \o tag_prefix \o TAGPARTER \o calls[k].jid
          /\ calls[k].returned =>
                calls[k].handle = [tag |-> calls[k].tag, jid |-> calls[k].jid]
    /\ \A i \in 1..Len(bus) :
          LET c == calls[bus[i].by]
          IN  /\ bus[i].topic \in {c.tag \o TAGPARTER \o s_new,
                                   c.tag \o TAGPARTER \o s_ret}
              /\ bus[i].data.jid = c.jid

C9_Witness ==
    \E k \in 1..Len(calls) :
        /\ calls[k].returned
        /\ Len(EventsBy(k)) = 2
        /\ EventsBy(k)[2].topic = calls[k].handle.tag \o TAGPARTER \o s_ret
        /\ EventsBy(k)[2].data.jid = calls[k].handle.jid

\* C10: a worker with fire_event=false publishes nothing and never opens a
\* bus connection, and it enters self.low once: the registered callable has
\* run exactly once when the worker has ended.
C10_NoEventsWithoutFireEvent ==
    \A k \in 1..Len(proc) :
        ~proc[k].fire_event =>
            /\ EventsBy(k) = <<>>
            /\ proc[k].event = "unset"
            /\ proc[k].exc \notin {"get_event", "fire_event"}
            /\ proc[k].invoked <= 1
            /\ Terminated(proc[k]) =>
                  /\ proc[k].invoked = 1
                  /\ SyncOutcome(k).cls # "CommandExecutionError" =>
                        Cardinality({i \in 1..Len(proc[k].ran) :
                                        proc[k].ran[i] = "l_fun"}) = 1

C10_Witness ==
    \E k \in 1..Len(proc) :
        /\ ~proc[k].fire_event /\ proc[k].pc = "done"
        /\ proc[k].invoked = 1 /\ "l_fun" \in Range(proc[k].ran)

\* C11 as stated: a worker that has opened a bus connection and has left
\* _proc_function, on any path, has released the connection.
C11_ReleasedOnEveryExit ==
    \A k \in 1..Len(proc) :
        (Terminated(proc[k]) /\ proc[k].event # "unset") =>
            proc[k].event = "deleted"

\* C12 as stated: of two calls of async() made one after the other, the
\* later has the greater or equal jid, and the jids are equal exactly when
\* the two calls read the same clock value.
C12_JidsNonDecreasing ==
    \A i, j \in 1..Len(calls) :
        i < j => /\ StrLeq(calls[i].jid, calls[j].jid)
                 /\ calls[i].jid = calls[j].jid <=> calls[i].at = calls[j].at

\* C12, amended: jids are ordered as the wall-clock values that the calls
\* of async() read: the later call has the greater or equal jid exactly
\* when it read a clock value not before the earlier call's (which the wall
\* clock, being settable, does not guarantee), and the jids are equal exactly
\* when the two calls read the same clock value.
C12_JidsOrderedAsClockReadings ==
    \A i, j \in 1..Len(calls) :
        /\ StrLeq(calls[i].jid, calls[j].jid) <=> calls[i].at <= calls[j].at
        /\ calls[i].jid = calls[j].jid <=> calls[i].at = calls[j].at
        /\ Len(calls[i].jid) = Len(calls[j].jid)

C12_Witness ==
    \E i, j \in 1..Len(calls) :
        /\ i < j
        /\ calls[i].at = calls[j].at
        /\ calls[i].jid = calls[j].jid

\* C15 as stated: for every job id, every 'new' event carrying it is on
\* the bus before every 'ret' event carrying it.
C15_NewBeforeRetPerJid ==
    \A i, j \in 1..Len(bus) :
        (IsNew(bus[i]) /\ IsRet(bus[j]) /\ bus[i].data.jid = bus[j].data.jid)
            => i < j

\* C15, amended: the 'new' event of a dispatch is on the bus before the
\* 'ret' event of that dispatch. Per job id this orders the events only of
\* dispatches whose job id is their own: a 'ret' event precedes a 'new'
\* event with the same job id only when the two come from two dispatches
\* that read the same clock value and so share job id and tag.
C15_NewBeforeRetPerDispatch ==
    \A i, j \in 1..Len(bus) :
        (IsNew(bus[i]) /\ IsRet(bus[j]) /\ bus[i].data.jid = bus[j].data.jid)
            => \/ i < j
               \/ /\ bus[i].by # bus[j].by
                  /\ calls[bus[i].by].at = calls[bus[j].by].at
                  /\ bus[i].topic = tagify(s_new, <<>>, calls[bus[j].by].tag)

C15_Witness ==
    \E i, j \in 1..Len(bus) :
        /\ i < j /\ IsRet(bus[i]) /\ IsNew(bus[j])
        /\ bus[i].data.jid = bus[j].data.jid
        /\ \E n \in 1..Len(bus) : n > j /\ IsRet(bus[n]) /\ bus[n].by = bus[j].by

\* C16: a worker with fire_event=true whose bus connection opened and whose
\* invoked function has ended, by returning or by raising, does not end
\* before it has published its 'ret' event. (A worker that ended because
\* publishing itself failed is left aside.)
C16_EndedCallIsReported ==
    \A k \in 1..Len(proc) :
        (/\ proc[k].fire_event /\ proc[k].event # "unset"
         /\ proc[k].ran # <<>> /\ proc[k].exc # "fire_event"
         /\ Terminated(proc[k])) =>
            /\ proc[k].pc = "done"
            /\ \E i \in 1..Len(bus) : bus[i].by = k /\ IsRet(bus[i])

\* C17 as stated: a worker with fire_event=true that could not open the
\* bus connection has terminated without publishing an event and without
\* invoking the function, and its call of async() has already returned.
C17_FailsAfterReturn ==
    \A k \in 1..Len(proc) :
        proc[k].exc = "get_event" =>
            /\ proc[k].fire_event /\ proc[k].pc = "died"
            /\ EventsBy(k) = <<>> /\ proc[k].invoked = 0
            /\ calls[k].returned

\* C17, amended: a worker with fire_event=true that could not open the bus
\* connection has terminated without publishing an event and without invoking
\* the function; its call of async() is unaffected: it has returned {tag,
\* jid}, or it is about to and nothing the worker did prevents it.
C17_GetEventFailurePropagates ==
    \A k \in 1..Len(proc) :
        proc[k].exc = "get_event" =>
            /\ proc[k].fire_event /\ proc[k].pc = "died"
            /\ EventsBy(k) = <<>> /\ proc[k].invoked = 0 /\ proc[k].ran = <<>>
            /\ proc[k].event = "unset"
            /\ calls[k].returned =>
                  calls[k].handle = [tag |-> calls[k].tag, jid |-> calls[k].jid]
            /\ ~calls[k].returned =>
                  (k = Len(calls) /\ disp = "return" /\ ENABLED AsyncReturn)
            /\ (disp = "idle" /\ Len(calls) < MaxDispatch) =>
                  ENABLED (\E j \in Jobs : AsyncCall(j[1], j[2], j[3], j[4]))

C17_Witness ==
    \E k \in 1..Len(proc) :
        /\ proc[k].exc = "get_event" /\ proc[k].pc = "died"
        /\ calls[k].returned /\ calls[k].handle.jid = proc[k].jid
        /\ Len(calls) > k

\* C18: async() does not validate the function name: with an empty or
\* unregistered name it can be called, starts a worker and returns {tag,
\* jid}; _verify_fun fails only inside the worker, after the 'new' event is
\* published, the failure stays in the worker, and the 'ret' event the
\* worker publishes reports it with success=false.
C18_VerifyFailsInsideWorker ==
    /\ (disp = "idle" /\ Len(calls) < MaxDispatch) =>
          /\ ENABLED AsyncCall(Str(n_none), NoLow, "UNKNOWN", TRUE)
          /\ ENABLED AsyncCall(Str(<<>>), NoLow, "UNKNOWN", TRUE)
    /\ \A k \in 1..Len(calls) :
          (~Registered(calls[k].fun) /\ calls[k].fire_event) =>
              /\ (disp = "start" /\ k = Len(calls)) => ENABLED ProcStart
              /\ calls[k].returned =>
                    /\ k <= Len(proc)
                    /\ calls[k].handle = [tag |-> calls[k].tag, jid |-> calls[k].jid]
              /\ k <= Len(proc) =>
                    LET v == _verify_fun(functions, calls[k].fun)
                    IN  /\ v.kind = "raise"
                        /\ proc[k].exc \in {"", "get_event", "fire_event"}
                        /\ proc[k].ran # <<>> =>
                              /\ proc[k].ran = <<"_verify_fun">>
                              /\ \E i \in 1..Len(bus) : bus[i].by = k /\ IsNew(bus[i])
                        /\ \A i \in 1..Len(bus) :
                              (bus[i].by = k /\ IsRet(bus[i])) =>
                                  /\ bus[i].data.success = FALSE
                                  /\ bus[i].data["return"] = Summary(proc[k], v)
                        /\ proc[k].pc = "done" =>
                              \E i \in 1..Len(bus) : bus[i].by = k /\ IsRet(bus[i])

C18_Witness ==
    \E k \in 1..Len(proc) :
        /\ calls[k].fun = Str(<<>>) /\ calls[k].returned
        /\ proc[k].pc = "done"
        /\ \E i \in 1..Len(bus) :
              bus[i].by = k /\ IsRet(bus[i]) /\ bus[i].data.success = FALSE

\* C19: a published 'new' payload holds exactly 'fun' (the client kind, a
\* dot, the function name), 'jid' and 'user'; a published 'ret' payload
\* holds these three with the same values, and 'return' and 'success'; in
\* both, 'user' is the user given to async().
C19_PayloadShape ==
    \A i \in 1..Len(bus) :
        LET e == bus[i]
            c == calls[e.by]
        IN  /\ IsNew(e) # IsRet(e)
            /\ {"fun", "jid", "user"} \subseteq DOMAIN e.data
            /\ e.data.fun = client \o <<".">> \o Render(c.fun)
            /\ e.data.jid = c.jid
            /\ e.data.user = c.user
            /\ IsNew(e) => DOMAIN e.data = {"fun", "jid", "user"}
            /\ IsRet(e) =>
                  /\ DOMAIN e.data = {"fun", "jid", "user", "return", "success"}
                  /\ e.data.success \in BOOLEAN
                  /\ \A j \in 1..Len(bus) :
                        (bus[j].by = e.by /\ IsNew(bus[j])) =>
                            \A f \in {"fun", "jid", "user"} : bus[j].data[f] = e.data[f]

C19_Witness ==
    \E i, j \in 1..Len(bus) :
        /\ bus[i].by = bus[j].by /\ IsNew(bus[i]) /\ IsRet(bus[j])
        /\ bus[j].data.user = "root" /\ bus[j].data.success
        /\ bus[j].data.fun = client \o <<".">> \o n_echo

----------------------------------------------------------------------------
\* Properties of the synchronous interface (checked under SpecSync)

\* C6: _verify_fun(fun) returns exactly when fun is non-empty and a key of
\* the registry; it raises the 'Must specify' error when fun is empty or
\* None, and the 'unavailable' error when fun is non-empty and no key.
C6_VerifyFun ==
    sync.op = "_verify_fun" =>
        LET empty == sync.fun.t = "None" \/ sync.fun.s = <<>>
        IN  /\ sync.out.kind = "return" <=> Registered(sync.fun)
            /\ empty => sync.out = Raised("CommandExecutionError",
                                          <<"Must specify a function to run">>)
            /\ (~empty /\ ~Registered(sync.fun)) =>
                  sync.out = Raised("CommandExecutionError",
                      <<"Function ", "'">> \o sync.fun.s \o <<"'", " is unavailable">>)

C6_Witness ==
    /\ sync.op = "_verify_fun" /\ sync.fun = Str(<<>>)
    /\ sync.out.kind = "raise" /\ functions = Registry

\* C7: when _verify_fun(fun) raises, low(fun, low) raises that error and
\* has run nothing else: no format_call, no call of a registered callable.
C7_LowVerifiesFirst ==
    (sync.op = "low" /\ ~Registered(sync.fun)) =>
        /\ sync.out = _verify_fun(functions, sync.fun)
        /\ sync.out.kind = "raise"
        /\ sync.ran = <<"_verify_fun">>

C7_Witness ==
    /\ sync.op = "low" /\ sync.fun = Str(n_none)
    /\ sync.out.cls = "CommandExecutionError"

\* C8: for a registered fun and a call specification that format_call
\* accepts and that binds to the parameters of the callable, low(fun, low)
\* ends as the callable's body ends: with its return value, or with the
\* exception it raises.
C8_LowIsTransparent ==
    (sync.op = "low" /\ Registered(sync.fun)) =>
        LET l_fun == functions[sync.fun.s]
            fc    == format_call(l_fun, sync.data)
            b     == Bind(l_fun, fc.args, fc.kwargs)
        IN  (fc.out.kind = "return" /\ b.err = <<>>) =>
                /\ sync.out = RunBody(l_fun.body, b.env)
                /\ sync.ran = <<"_verify_fun", "format_call", "l_fun">>

C8_Witness ==
    /\ sync.op = "low" /\ sync.fun = Str(n_boom)
    /\ sync.out = Raised("ValueError", <<"bad">>)

\* The names of the entries get_docs returned.
DocNames == {sync.docs[i].name : i \in 1..Len(sync.docs)}

\* C13 as stated: get_docs(arg) with a non-empty arg returns entries for
\* exactly the registered names equal to arg or starting with arg + '.',
\* and with no arg an entry for every registered name.
C13_EqualOrPrefixPlusDot ==
    sync.op = "get_docs" =>
        DocNames = IF Truthy(sync.fun)
                   THEN {n \in DOMAIN functions :
                            n = sync.fun.s \/ StartsWith(n, sync.fun.s \o <<".">>)}
                   ELSE DOMAIN functions

\* C13, amended: get_docs(arg) with a non-empty arg returns one entry for
\* each registered name that is equal to arg or starts with arg + '.', or,
\* when arg already ends with '.', starts with arg itself; with None or
\* the empty string it returns one entry for every registered name. Each
\* entry is the callable's documentation text stripped of markup.
C13_DocsSelected ==
    sync.op = "get_docs" =>
        LET arg == sync.fun.s
            dotted == arg # <<>> /\ arg[Len(arg)] = "."
            wanted == IF sync.fun.t = "None" \/ arg = <<>>
                      THEN DOMAIN functions
                      ELSE {n \in DOMAIN functions :
                               \/ n = arg
                               \/ ~dotted /\ StartsWith(n, arg \o <<".">>)
                               \/ dotted /\ StartsWith(n, arg)}
        IN  /\ DocNames = wanted
            /\ Len(sync.docs) = Cardinality(wanted)
            /\ \A i \in 1..Len(sync.docs) :
                  /\ sync.docs[i].doc = strip_rst(DocOf(functions[sync.docs[i].name]))
                  /\ Range(sync.docs[i].doc) \cap Markup = {}

C13_Witness ==
    /\ sync.op = "get_docs" /\ sync.fun = Str(<<"b">>)
    /\ n_bx \in DOMAIN functions
    /\ DocNames = {n_boom, n_any}

\* C14: get_docs returns its names in strictly sorted lexicographic order.
C14_DocsSorted ==
    sync.op = "get_docs" =>
        \A i, j \in 1..Len(sync.docs) :
            i < j => /\ sync.docs[i].name # sync.docs[j].name
                     /\ StrLeq(sync.docs[i].name, sync.docs[j].name)

\* C20: _verify_fun, low and get_docs leave the registry as it was, and low
\* leaves the call specification it was given as it was, whether the call
\* returns or raises.
C20_NoSideEffects ==
    [][/\ functions' = functions
       /\ sync'.op = "low" => sync'.after = sync'.data]_vars

C20_Witness ==
    /\ sync.op = "low" /\ sync.out.kind = "raise"
    /\ sync.ran = <<"_verify_fun", "format_call">>
    /\ sync.data # NoLow /\ sync.after = sync.data
    /\ functions = Registry

====
